---- MODULE Spec2Model ----
(***************************************************************************)
(* Thurs: a grid raycaster (src/src/raycaster.rs), its collision-aware     *)
(* movement loop (src/src/engine.rs) and the player rotation               *)
(* (src/src/player.rs).                                                    *)
(*                                                                         *)
(* f32 values are fixed-point integers: the integer n stands for           *)
(* n / SCALE.  Products and quotients round to the nearest unit, halves    *)
(* away from zero.  The values cast_ray may drive to infinity or NaN       *)
(* (delta_dist, side_dist, distance, hit_pos) are records [k, v] with      *)
(* k in {"fin", "inf", "ninf", "nan"}, following IEEE-754 arithmetic.      *)
(***************************************************************************)
EXTENDS Integers, Sequences, FiniteSets, TLC

VARIABLES
    WORLD_MAP,   \* the grid, read-only
    player,      \* run_game's Player
    keys,        \* the movement keys that are down
    centre,      \* what the last frame drew in the centre screen column
    ray_origin,  \* cast_ray called on its own: its origin ...
    ray_dir,     \* ... its direction ...
    hit,         \* ... and its result
    qpos,        \* is_colliding called on its own: the position asked about ...
    qres,        \* ... and the answer
    pc           \* "poll"/"frame" in run_game; "cast"/"done"; "query"/"answered"

vars == <<WORLD_MAP, player, keys, centre, ray_origin, ray_dir, hit, qpos, qres, pc>>

\* Fixed-point unit of the model: 1.0 is SCALE, so one unit is 0.05, the
\* coarsest unit in which every constant the program uses (move_speed 0.05,
\* COLLISION_RADIUS 0.1, the 0.2 floor, the spawn 3.5, the plane 0.5, the cell
\* size 1.0) is exact.  rot_speed (0.03) is never read.
SCALE == 20

----------------------------------------------------------------------------
\* Fixed-point arithmetic

Abs(n) == IF n < 0 THEN -n ELSE n

Sgn(n) == IF n < 0 THEN -1 ELSE IF n > 0 THEN 1 ELSE 0

\* n / d rounded to the nearest integer, halves away from zero (d > 0).
RoundDiv(n, d) == Sgn(n) * ((2 * Abs(n) + d) \div (2 * d))

\* a * b of two fixed-point numbers.
Mul(a, b) == RoundDiv(a * b, SCALE)

\* a / b of two fixed-point numbers (b # 0).
Div(a, b) == Sgn(b) * RoundDiv(a * SCALE, Abs(b))

RECURSIVE ISqrtBits(_, _, _)
\* floor(sqrt(n)) by bisection on [lo, hi).
ISqrtBits(n, lo, hi) ==
    IF hi - lo <= 1 THEN lo
    ELSE LET mid == (lo + hi) \div 2
         IN  IF mid * mid <= n THEN ISqrtBits(n, mid, hi)
             ELSE ISqrtBits(n, lo, mid)

\* sqrt of an integer, rounded to the nearest integer.
Sqrt(n) ==
    LET r == ISqrtBits(n, 0, 46340)
    IN  IF n - r * r > r THEN r + 1 ELSE r

\* `f as i32`: truncation toward zero of a fixed-point number to an integer.
Trunc(f) == Sgn(f) * (Abs(f) \div SCALE)

----------------------------------------------------------------------------
\* raylib Vector2

Vec(x, y) == [x |-> x, y |-> y]

VAdd(a, b) == Vec(a.x + b.x, a.y + b.y)

VNeg(a) == Vec(-a.x, -a.y)

\* Vector2 * f32
VScale(a, s) == Vec(Mul(a.x, s), Mul(a.y, s))

VLength(a) == Sqrt(a.x * a.x + a.y * a.y)

VDot(a, b) == RoundDiv(a.x * b.x + a.y * b.y, SCALE)

\* Vector2::normalized: the vector divided by its length.
normalized(a) ==
    LET len == VLength(a)
    IN  IF len = 0 THEN a ELSE Vec(Div(a.x, len), Div(a.y, len))

----------------------------------------------------------------------------
\* The grid (crate::map)

\* A one-cell room around the spawn cell (3, 3): every other cell is solid.
ClosetMap ==
    << <<1, 1, 1, 1, 1>>,
       <<1, 1, 1, 1, 1>>,
       <<1, 1, 1, 1, 1>>,
       <<1, 1, 1, 0, 1>>,
       <<1, 1, 1, 1, 1>> >>

\* A w x h grid with an all-solid border and an empty interior.
BorderedRoom(w, h) ==
    [y \in 1 .. h |-> [x \in 1 .. w |-> IF x \in {1, w} \/ y \in {1, h} THEN 1 ELSE 0]]

\* Side of the small enclosed room the casts are tried in.
SmallRoom == 5

\* The grids the casts and the collision queries are tried on.
Maps == {ClosetMap, BorderedRoom(SmallRoom, SmallRoom), BorderedRoom(10, 10)}

MAP_HEIGHT(map) == Len(map)

MAP_WIDTH(map) == Len(map[1])

\* WORLD_MAP[y][x] with Rust's 0-based indices.
Cell(map, x, y) == map[y + 1][x + 1]

----------------------------------------------------------------------------
\* engine.rs: collision

COLLISION_RADIUS == SCALE \div 10

Clamp(v, lo, hi) == IF v < lo THEN lo ELSE IF v > hi THEN hi ELSE v

\* Circle against the rectangle (rx, ry, rw, rh): closest-point clamping.
collision_check(circle_pos, radius, rx, ry, rw, rh) ==
    LET closest_x == Clamp(circle_pos.x, rx, rx + rw)
        closest_y == Clamp(circle_pos.y, ry, ry + rh)
        dx == circle_pos.x - closest_x
        dy == circle_pos.y - closest_y
    IN  dx * dx + dy * dy < radius * radius

is_colliding(pos, radius, map) ==
    \E y \in 0 .. MAP_HEIGHT(map) - 1 :
        \E x \in 0 .. MAP_WIDTH(map) - 1 :
            /\ Cell(map, x, y) # 0
            /\ collision_check(pos, radius, x * SCALE, y * SCALE, SCALE, SCALE)

----------------------------------------------------------------------------
\* player.rs

Player_new ==
    [pos |-> Vec((7 * SCALE) \div 2, (7 * SCALE) \div 2),
     dir |-> Vec(-SCALE, 0),
     plane |-> Vec(0, SCALE \div 2),
     move_speed |-> SCALE \div 20,
     rot_speed |-> (3 * SCALE) \div 100]

\* The angles the mouse can produce in the model, as [cos, sin] of the angle
\* delta_x * MOUSE_SENSITIVITY: 0 (no mouse movement), +45 and -45 degrees.
Angles == { [cos |-> SCALE, sin |-> 0],
            [cos |-> (707 * SCALE) \div 1000, sin |-> (707 * SCALE) \div 1000],
            [cos |-> (707 * SCALE) \div 1000, sin |-> -((707 * SCALE) \div 1000)] }

rotate(p, angle) ==
    LET cos == angle.cos
        sin == angle.sin
        old_dir == p.dir
        new_dir == Vec(Mul(old_dir.x, cos) - Mul(old_dir.y, sin),
                       Mul(old_dir.x, sin) + Mul(old_dir.y, cos))
        old_plane == p.plane
        new_plane == Vec(Mul(old_plane.x, cos) - Mul(old_plane.y, sin),
                         Mul(old_plane.x, sin) + Mul(old_plane.y, cos))
    IN  [p EXCEPT !.dir = normalized(new_dir), !.plane = normalized(new_plane)]

----------------------------------------------------------------------------
\* engine.rs: the movement step of one frame

\* MoveIntent with the y-only write left unguarded.
MoveIntent_UncheckedY(pos, move_dir, map) ==
    LET try_pos == VAdd(pos, move_dir)
    IN  IF ~is_colliding(try_pos, COLLISION_RADIUS, map)
        THEN try_pos
        ELSE Vec(pos.x, try_pos.y)

\* The body of `if rl.is_key_down(key.0)`: one intent applied to pos.
MoveIntent(pos, move_dir, map) ==
    LET try_pos == VAdd(pos, move_dir)
        x_only == Vec(try_pos.x, pos.y)
        y_only == Vec(pos.x, try_pos.y)
    IN  IF ~is_colliding(try_pos, COLLISION_RADIUS, map)
        THEN try_pos
        ELSE LET px == IF ~is_colliding(try_pos, COLLISION_RADIUS, map)
                       THEN Vec(x_only.x, pos.y) ELSE pos
             IN  IF ~is_colliding(y_only, COLLISION_RADIUS, map)
                 THEN Vec(px.x, y_only.y) ELSE px

forward(p) == VScale(p.dir, p.move_speed)

strafe(p) == VScale(Vec(-p.dir.y, p.dir.x), p.move_speed)

\* The key table of the movement loop, in its order.
KeyOrder == <<"W", "S", "A", "D">>

KeyMove(p, k) ==
    CASE k = "W" -> forward(p)
      [] k = "S" -> VNeg(forward(p))
      [] k = "A" -> strafe(p)
      [] k = "D" -> VNeg(strafe(p))

RECURSIVE MoveFrom_StalePos(_, _, _, _, _)
\* MoveFrom with every candidate taken from the position at the start of the
\* frame instead of the position the previous intent left.
MoveFrom_StalePos(i, pos, p, down, map) ==
    IF i > Len(KeyOrder) THEN pos
    ELSE LET k == KeyOrder[i]
             next == IF k \in down THEN MoveIntent(p.pos, KeyMove(p, k), map) ELSE pos
         IN  MoveFrom_StalePos(i + 1, next, p, down, map)

RECURSIVE MoveFrom(_, _, _, _, _)
\* The `for key in [...]` loop from its i-th entry on; forward and strafe were
\* computed from p before the loop.
MoveFrom(i, pos, p, down, map) ==
    IF i > Len(KeyOrder) THEN pos
    ELSE LET k == KeyOrder[i]
             next == IF k \in down THEN MoveIntent(pos, KeyMove(p, k), map) ELSE pos
         IN  MoveFrom(i + 1, next, p, down, map)

Movement(p, down, map) == [p EXCEPT !.pos = MoveFrom(1, p.pos, p, down, map)]

----------------------------------------------------------------------------
\* IEEE-754 values that may be infinite or NaN

Fin(v) == [k |-> "fin", v |-> v]

INFINITY == [k |-> "inf", v |-> 0]

NEG_INFINITY == [k |-> "ninf", v |-> 0]

NAN == [k |-> "nan", v |-> 0]

IsFin(a) == a.k = "fin"

\* The sign of an extended value that is not NaN.
FSgn(a) == CASE a.k = "fin" -> Sgn(a.v) [] a.k = "inf" -> 1 [] a.k = "ninf" -> -1

FAdd(a, b) ==
    CASE a.k = "nan" \/ b.k = "nan" -> NAN
      [] a.k = "fin" /\ b.k = "fin" -> Fin(a.v + b.v)
      [] a.k = "fin" -> b
      [] b.k = "fin" -> a
      [] a.k = b.k -> a
      [] OTHER -> NAN

FNeg(a) ==
    CASE a.k = "fin" -> Fin(-a.v)
      [] a.k = "inf" -> NEG_INFINITY
      [] a.k = "ninf" -> INFINITY
      [] OTHER -> NAN

FSub(a, b) == FAdd(a, FNeg(b))

FMul(a, b) ==
    CASE a.k = "nan" \/ b.k = "nan" -> NAN
      [] a.k = "fin" /\ b.k = "fin" -> Fin(Mul(a.v, b.v))
      [] FSgn(a) = 0 \/ FSgn(b) = 0 -> NAN
      [] FSgn(a) * FSgn(b) > 0 -> INFINITY
      [] OTHER -> NEG_INFINITY

FAbs(a) == CASE a.k = "fin" -> Fin(Abs(a.v)) [] a.k = "nan" -> NAN [] OTHER -> INFINITY

\* a < b; false when either is NaN.
FLt(a, b) ==
    CASE a.k = "nan" \/ b.k = "nan" -> FALSE
      [] a.k = "fin" /\ b.k = "fin" -> a.v < b.v
      [] a.k = "ninf" -> b.k # "ninf"
      [] b.k = "inf" -> a.k # "inf"
      [] OTHER -> FALSE

----------------------------------------------------------------------------
\* raycaster.rs

\* EPSILON = 0.0001 as the fraction EPSILON_NUM / EPSILON_DEN.
EPSILON_NUM == 1

EPSILON_DEN == 10000

\* The iteration cap of the DDA loop.
MAX_STEPS == 256

\* a < EPSILON for an extended value a.
LtEpsilon(a) == a.k = "fin" /\ a.v * EPSILON_DEN < EPSILON_NUM * SCALE

IVec2(x, y) == [x |-> x, y |-> y]

NoHit ==
    [some |-> FALSE, distance |-> Fin(0), hit_pos |-> Vec(Fin(0), Fin(0)),
     map_pos |-> IVec2(0, 0), side |-> 0, step |-> IVec2(0, 0)]

\* |1 / d|, or infinity for d = 0.
DeltaDist(d) == IF d # 0 THEN Fin(Abs(Div(SCALE, d))) ELSE INFINITY

InGrid(map, x, y) == x >= 0 /\ y >= 0 /\ x < MAP_WIDTH(map) /\ y < MAP_HEIGHT(map)

RECURSIVE DDA(_, _, _, _, _, _, _, _, _, _)
\* The `for _ in 0..256` loop with i iterations left.  An iteration that changes
\* none of map_pos, side_dist and side is repeated unchanged by all the
\* iterations left, so the loop runs out: the result is None.
DDA(i, map, o, d, delta, step, mp, sdx, sdy, side0) ==
    IF i = 0 THEN NoHit
    ELSE
      LET tie == LtEpsilon(FAbs(FSub(sdx, sdy)))
          next_x == mp.x + step.x
          next_y == mp.y + step.y
          hit_x == next_x >= 0 /\ next_x < MAP_WIDTH(map) /\ Cell(map, next_x, mp.y) > 0
          hit_y == next_y >= 0 /\ next_y < MAP_HEIGHT(map) /\ Cell(map, mp.x, next_y) > 0
          tside == IF hit_x /\ hit_y
                   THEN (IF Abs(d.x) > Abs(d.y) THEN 0 ELSE 1)
                   ELSE (IF hit_x THEN 0 ELSE 1)
          xfirst == FLt(sdx, sdy)
          side == IF tie THEN (IF hit_x \/ hit_y THEN tside ELSE side0)
                  ELSE IF xfirst THEN 0 ELSE 1
          nmp == IF tie
                 THEN (IF hit_x \/ hit_y
                       THEN (IF tside = 0 THEN IVec2(next_x, mp.y) ELSE IVec2(mp.x, next_y))
                       ELSE mp)
                 ELSE IF xfirst THEN IVec2(next_x, mp.y) ELSE IVec2(mp.x, next_y)
          nsdx == IF ~tie /\ xfirst THEN FAdd(sdx, delta.x) ELSE sdx
          nsdy == IF ~tie /\ ~xfirst THEN FAdd(sdy, delta.y) ELSE sdy
      IN  IF ~InGrid(map, nmp.x, nmp.y) THEN NoHit
          ELSE IF Cell(map, nmp.x, nmp.y) > 0
          THEN LET distance == IF side = 0 THEN FSub(nsdx, delta.x)
                               ELSE FSub(nsdy, delta.y)
               IN  [some |-> TRUE,
                    distance |-> distance,
                    hit_pos |-> Vec(FAdd(Fin(o.x), FMul(Fin(d.x), distance)),
                                    FAdd(Fin(o.y), FMul(Fin(d.y), distance))),
                    map_pos |-> nmp,
                    side |-> side,
                    step |-> step]
          ELSE IF <<nmp, nsdx, nsdy, side>> = <<mp, sdx, sdy, side0>> THEN NoHit
          ELSE DDA(i - 1, map, o, d, delta, step, nmp, nsdx, nsdy, side)

\* cast_ray with side_dist measured to the cell's upper boundary whatever the
\* sign of the direction.
cast_ray_UpperBoundaryOnly(o, d, map) ==
    LET map_pos == IVec2(Trunc(o.x), Trunc(o.y))
        delta == Vec(DeltaDist(d.x), DeltaDist(d.y))
        step_x == IF d.x < 0 THEN -1 ELSE 1
        side_dist_x == FMul(Fin(map_pos.x * SCALE + SCALE - o.x), delta.x)
        step_y == IF d.y < 0 THEN -1 ELSE 1
        side_dist_y == FMul(Fin(map_pos.y * SCALE + SCALE - o.y), delta.y)
    IN  DDA(MAX_STEPS, map, o, d, delta, IVec2(step_x, step_y), map_pos,
            side_dist_x, side_dist_y, 0)

cast_ray(o, d, map) ==
    LET map_pos == IVec2(Trunc(o.x), Trunc(o.y))
        delta == Vec(DeltaDist(d.x), DeltaDist(d.y))
        step_x == IF d.x < 0 THEN -1 ELSE 1
        side_dist_x == IF d.x < 0
                       THEN FMul(Fin(o.x - map_pos.x * SCALE), delta.x)
                       ELSE FMul(Fin(map_pos.x * SCALE + SCALE - o.x), delta.x)
        step_y == IF d.y < 0 THEN -1 ELSE 1
        side_dist_y == IF d.y < 0
                       THEN FMul(Fin(o.y - map_pos.y * SCALE), delta.y)
                       ELSE FMul(Fin(map_pos.y * SCALE + SCALE - o.y), delta.y)
    IN  DDA(MAX_STEPS, map, o, d, delta, IVec2(step_x, step_y), map_pos,
            side_dist_x, side_dist_y, 0)

----------------------------------------------------------------------------
\* engine.rs: one screen column of the render loop

\* The floor of corrected_dist, 0.2.
MIN_DIST == SCALE \div 5

\* a / b for an extended a and a finite b.
FDiv(a, b) ==
    CASE a.k = "nan" -> NAN
      [] b = 0 -> (IF FSgn(a) = 0 THEN NAN
                   ELSE IF FSgn(a) > 0 THEN INFINITY ELSE NEG_INFINITY)
      [] a.k = "fin" -> Fin(Div(a.v, b))
      [] FSgn(a) * Sgn(b) > 0 -> INFINITY
      [] OTHER -> NEG_INFINITY

\* f32::max: the other operand when one is NaN.
FMax(a, b) ==
    CASE a.k = "nan" -> b
      [] b.k = "nan" -> a
      [] FLt(a, b) -> b
      [] OTHER -> a

NoColumn ==
    [drawn |-> FALSE, camera_x |-> 0, ray_dir |-> Vec(0, 0), hit |-> NoHit,
     corrected_dist |-> Fin(0)]

\* Column with the floor applied as a ceiling: min(0.2) in place of max(0.2).
Column_MinFloor(p, camera_x, map) ==
    LET rd == VAdd(p.dir, VScale(p.plane, camera_x))
        h == cast_ray(p.pos, rd, map)
        cos_angle == VDot(normalized(rd), p.dir)
        d == FDiv(h.distance, cos_angle)
    IN  [drawn |-> TRUE,
         camera_x |-> camera_x,
         ray_dir |-> rd,
         hit |-> h,
         corrected_dist |-> IF h.some
                            THEN (IF FLt(Fin(MIN_DIST), d) THEN Fin(MIN_DIST) ELSE d)
                            ELSE Fin(0)]

\* The body of `for x in 0..screen_w` for the column whose camera_x is given.
Column(p, camera_x, map) ==
    LET rd == VAdd(p.dir, VScale(p.plane, camera_x))
        h == cast_ray(p.pos, rd, map)
        cos_angle == VDot(normalized(rd), p.dir)
    IN  [drawn |-> TRUE,
         camera_x |-> camera_x,
         ray_dir |-> rd,
         hit |-> h,
         corrected_dist |-> IF h.some
                            THEN FMax(FDiv(h.distance, cos_angle), Fin(MIN_DIST))
                            ELSE Fin(0)]

----------------------------------------------------------------------------
\* engine.rs: run_game

AllKeys == {"W", "S", "A", "D"}

\* The host's input state as the next frame's rl.is_key_down will read it:
\* any subset of the four movement keys may be down.
PollInput(down) ==
    /\ pc = "poll"
    /\ keys' = down
    /\ pc' = "frame"
    /\ UNCHANGED <<WORLD_MAP, player, centre, ray_origin, ray_dir, hit, qpos, qres>>

\* One iteration of `while !rl.window_should_close()`: movement, rotation by
\* the angle the mouse gives, and the rendering of the centre column
\* (x = screen_w / 2, camera_x = 0).  The other columns are drawn the same way
\* and change no state.
Frame(angle) ==
    /\ pc = "frame"
    /\ LET moved == Movement(player, keys, WORLD_MAP)
           turned == rotate(moved, angle)
       IN  /\ player' = turned
           /\ centre' = Column(turned, 0, WORLD_MAP)
    /\ pc' = "poll"
    /\ UNCHANGED <<WORLD_MAP, keys, ray_origin, ray_dir, hit, qpos, qres>>

Init ==
    /\ WORLD_MAP = ClosetMap
    /\ player = Player_new
    /\ keys = {}
    /\ centre = NoColumn
    /\ ray_origin = Vec(0, 0)
    /\ ray_dir = Vec(0, 0)
    /\ hit = NoHit
    /\ qpos = Vec(0, 0)
    /\ qres = FALSE
    /\ pc = "poll"

Next ==
    \/ \E down \in SUBSET AllKeys : PollInput(down)
    \/ \E angle \in Angles : Frame(angle)

Spec == Init /\ [][Next]_vars

----------------------------------------------------------------------------
\* cast_ray called on its own, on every origin and direction of a bounded set

\* Offsets of an origin within its cell: on the cell's lower edge, at its middle.
Fracs == {0, SCALE \div 2}

DirComponents == {-SCALE, -(SCALE \div 2), 0, SCALE \div 2, SCALE}

EmptyCells(map) ==
    {c \in (0 .. MAP_WIDTH(map) - 1) \X (0 .. MAP_HEIGHT(map) - 1) : Cell(map, c[1], c[2]) = 0}

Origins(map) ==
    {Vec(c[1] * SCALE + f[1], c[2] * SCALE + f[2]) : c \in EmptyCells(map), f \in Fracs \X Fracs}

InitCast ==
    /\ WORLD_MAP \in Maps
    /\ player = Player_new
    /\ keys = {}
    /\ centre = NoColumn
    /\ ray_origin \in Origins(WORLD_MAP)
    /\ ray_dir \in {Vec(dx, dy) : dx \in DirComponents, dy \in DirComponents}
    /\ hit = NoHit
    /\ qpos = Vec(0, 0)
    /\ qres = FALSE
    /\ pc = "cast"

CastRay ==
    /\ pc = "cast"
    /\ hit' = cast_ray(ray_origin, ray_dir, WORLD_MAP)
    /\ pc' = "done"
    /\ UNCHANGED <<WORLD_MAP, player, keys, centre, ray_origin, ray_dir, qpos, qres>>

NextCast == CastRay

SpecCast == InitCast /\ [][NextCast]_vars

----------------------------------------------------------------------------
\* is_colliding called on its own, on positions inside and outside the grid

\* How many cells beyond the grid's edges the queried positions reach.
Margin == 2

QueryCoords(n) == {c * SCALE + f : c \in -Margin .. n + Margin - 1, f \in Fracs}

InitCollide ==
    /\ WORLD_MAP \in Maps
    /\ player = Player_new
    /\ keys = {}
    /\ centre = NoColumn
    /\ ray_origin = Vec(0, 0)
    /\ ray_dir = Vec(0, 0)
    /\ hit = NoHit
    /\ qpos \in {Vec(x, y) : x \in QueryCoords(MAP_WIDTH(WORLD_MAP)),
                              y \in QueryCoords(MAP_HEIGHT(WORLD_MAP))}
    /\ qres = FALSE
    /\ pc = "query"

IsColliding ==
    /\ pc = "query"
    /\ qres' = is_colliding(qpos, COLLISION_RADIUS, WORLD_MAP)
    /\ pc' = "answered"
    /\ UNCHANGED <<WORLD_MAP, player, keys, centre, ray_origin, ray_dir, hit, qpos>>

NextCollide == IsColliding

SpecCollide == InitCollide /\ [][NextCollide]_vars

----------------------------------------------------------------------------
\* Claims about cast_ray (checked under SpecCast)

\* The grid has an all-solid border and an empty interior.
EnclosedEmpty(map) == map = BorderedRoom(MAP_WIDTH(map), MAP_HEIGHT(map))

\* C3: in a grid with an all-solid border and an empty interior, cast_ray from
\* any interior origin returns Some(hit) for every non-zero direction, exact
\* diagonals included.
C3_EnclosedRoomAlwaysHits ==
    (pc = "done" /\ EnclosedEmpty(WORLD_MAP) /\ ray_dir # Vec(0, 0)) => hit.some

\* C4: for every direction with a zero component (both zero included) and every
\* origin inside the grid, cast_ray ends within its cap, and the distance of a
\* returned hit is finite: neither NaN nor infinite.
C4_ZeroComponentFinite ==
    (pc = "done" /\ (ray_dir.x = 0 \/ ray_dir.y = 0) /\ hit.some) => IsFin(hit.distance)

\* The cells the axis-aligned unit direction d meets after the cell c, in order
\* of distance k = 1, 2, ... while they are in the grid.
Ahead(map, c, d, k) == IVec2(c.x + k * Sgn(d.x), c.y + k * Sgn(d.y))

\* The number of cells from c to the nearest solid cell straight ahead.
NearestSolid(map, c, d) ==
    CHOOSE k \in 1 .. (MAP_WIDTH(map) + MAP_HEIGHT(map)) :
        /\ InGrid(map, Ahead(map, c, d, k).x, Ahead(map, c, d, k).y)
        /\ Cell(map, Ahead(map, c, d, k).x, Ahead(map, c, d, k).y) # 0
        /\ \A j \in 1 .. k - 1 : Cell(map, Ahead(map, c, d, j).x, Ahead(map, c, d, j).y) = 0

\* The distance from the coordinate o in cell c to the near face of the cell
\* k cells ahead, going in the direction of sign s.
FaceDistance(o, c, k, s) ==
    IF s > 0 THEN (c + k) * SCALE - o ELSE o - (c + 1 - k) * SCALE

AxisAligned(d) == (Abs(d.x) = SCALE /\ d.y = 0) \/ (d.x = 0 /\ Abs(d.y) = SCALE)

\* C5: an axis-aligned cast (direction (+-1, 0) or (0, +-1)) from an empty cell
\* toward a solid cell whose near face is n away, with only empty cells in
\* between, returns a hit at distance n, at that nearest solid cell, with side 0
\* for an x-direction cast and side 1 for a y-direction cast.
C5_AxisAlignedDistance ==
    (pc = "done" /\ AxisAligned(ray_dir)) =>
        LET c == IVec2(Trunc(ray_origin.x), Trunc(ray_origin.y))
            k == NearestSolid(WORLD_MAP, c, ray_dir)
            n == IF ray_dir.x # 0 THEN FaceDistance(ray_origin.x, c.x, k, ray_dir.x)
                 ELSE FaceDistance(ray_origin.y, c.y, k, ray_dir.y)
        IN  /\ hit.some
            /\ hit.distance = Fin(n)
            /\ hit.map_pos = Ahead(WORLD_MAP, c, ray_dir, k)
            /\ hit.side = (IF ray_dir.x # 0 THEN 0 ELSE 1)

\* C5's case: on the 10 x 10 bordered grid the cast from (2, 2) facing (1, 0)
\* has hit the border cell (9, 2), 7 away, on side 0.
C5_Witness ==
    /\ pc = "done"
    /\ WORLD_MAP = BorderedRoom(10, 10)
    /\ ray_origin = Vec(2 * SCALE, 2 * SCALE)
    /\ ray_dir = Vec(SCALE, 0)
    /\ hit.some
    /\ hit.map_pos = IVec2(9, 2)
    /\ hit.side = 0
    /\ hit.distance = Fin(7 * SCALE)

\* The point p lies on the boundary of the unit cell c.
OnCellBoundary(p, c) ==
    /\ IsFin(p.x) /\ IsFin(p.y)
    /\ p.x.v >= c.x * SCALE /\ p.x.v <= (c.x + 1) * SCALE
    /\ p.y.v >= c.y * SCALE /\ p.y.v <= (c.y + 1) * SCALE
    /\ \/ p.x.v \in {c.x * SCALE, (c.x + 1) * SCALE}
       \/ p.y.v \in {c.y * SCALE, (c.y + 1) * SCALE}

\* C10: whenever cast_ray returns a hit, on every path through the loop, the
\* tie branch included, the distance is non-negative and is the ray parameter at
\* which the ray crosses the face of the struck cell: hit_pos = origin + dir *
\* distance lies on the boundary of the cell map_pos.  (Stated for non-zero
\* directions; the zero direction is C4's case.)
C10_HitOnCellFace ==
    (pc = "done" /\ hit.some /\ ray_dir # Vec(0, 0)) =>
        /\ IsFin(hit.distance)
        /\ hit.distance.v >= 0
        /\ OnCellBoundary(hit.hit_pos, hit.map_pos)

----------------------------------------------------------------------------
\* Claim about is_colliding (checked under SpecCollide)

\* The position lies outside [0, MAP_WIDTH) x [0, MAP_HEIGHT).
OutsideGrid(pos, map) ==
    \/ pos.x < 0 \/ pos.x >= MAP_WIDTH(map) * SCALE
    \/ pos.y < 0 \/ pos.y >= MAP_HEIGHT(map) * SCALE

\* C6: a query outside the grid is blocking: is_colliding(pos, radius) is true
\* for every position outside [0, MAP_WIDTH) x [0, MAP_HEIGHT), also where no
\* solid cell lies within the radius.
C6_OutsideIsBlocking ==
    (pc = "answered" /\ OutsideGrid(qpos, WORLD_MAP)) => qres

----------------------------------------------------------------------------
\* Claims about the frame loop (checked under Spec)

\* C1: the committed player.pos is never blocked: is_colliding(player.pos,
\* COLLISION_RADIUS) is false in every reachable state.
C1_PositionNeverBlocked == ~is_colliding(player.pos, COLLISION_RADIUS, WORLD_MAP)

\* C1's case: a frame with W down has run, and the player stands where the
\* forward candidate is blocked by the wall ahead.
C1_Witness ==
    /\ pc = "poll"
    /\ centre.drawn
    /\ keys = {"W"}
    /\ is_colliding(VAdd(player.pos, forward(player)), COLLISION_RADIUS, WORLD_MAP)
    /\ ~is_colliding(player.pos, COLLISION_RADIUS, WORLD_MAP)

\* The candidate of the only key that is down.
OnlyKey == CHOOSE k \in keys : TRUE

\* C2: wall sliding.  In a frame with one active intent whose candidate is
\* blocked, position.x = candidate.x is committed if and only if xOnly is
\* unblocked, and position.y = candidate.y if and only if yOnly is unblocked.
C2_WallSliding ==
    [][(pc = "frame" /\ Cardinality(keys) = 1) =>
        LET cand == VAdd(player.pos, KeyMove(player, OnlyKey))
            x_only == Vec(cand.x, player.pos.y)
            y_only == Vec(player.pos.x, cand.y)
        IN  is_colliding(cand, COLLISION_RADIUS, WORLD_MAP) =>
              /\ (player'.pos.x = cand.x) <=> ~is_colliding(x_only, COLLISION_RADIUS, WORLD_MAP)
              /\ (player'.pos.y = cand.y) <=> ~is_colliding(y_only, COLLISION_RADIUS, WORLD_MAP)
      ]_vars

\* C7: after any sequence of rotate calls the magnitudes of player.dir and of
\* player.plane stay, within one unit of the model, at the magnitudes
\* Player::new sets: 1.0 for dir and 0.5 for plane.
C7_MagnitudesKept ==
    /\ Abs(VLength(player.dir) - VLength(Player_new.dir)) <= 1
    /\ Abs(VLength(player.plane) - VLength(Player_new.plane)) <= 1

\* C8 as claimed: in the centre column ray_dir is player.dir and, for every hit
\* at a (non-negative) distance, hits closer than 0.2 included, the corrected
\* distance is the raw hit.distance.
C8_CorrectedIsRaw ==
    centre.drawn =>
        /\ centre.ray_dir = player.dir
        /\ (centre.hit.some /\ FSgn(centre.hit.distance) >= 0) =>
              centre.corrected_dist = centre.hit.distance

\* C8 amended: in the centre column ray_dir is player.dir and the corrected
\* distance is max(hit.distance, 0.2): the raw distance when that is at least
\* 0.2, the floor 0.2 for a closer hit.
C8_CorrectedIsRawAboveFloor ==
    centre.drawn =>
        /\ centre.camera_x = 0
        /\ centre.ray_dir = player.dir
        /\ centre.hit.some =>
              /\ IsFin(centre.hit.distance)
              /\ centre.hit.distance.v >= MIN_DIST =>
                    centre.corrected_dist = centre.hit.distance
              /\ centre.hit.distance.v < MIN_DIST =>
                    centre.corrected_dist = Fin(MIN_DIST)

\* C8's case: the player stands at the collision radius from the wall it
\* faces, and the centre column's hit is 0.1 away.
C8_Witness ==
    /\ centre.drawn
    /\ centre.hit.some
    /\ centre.hit.distance = Fin(COLLISION_RADIUS)
    /\ centre.corrected_dist = Fin(MIN_DIST)

\* The position after the first i entries of the key table, each active
\* intent's displacement added in turn.
RECURSIVE CumPos(_, _, _)
CumPos(p, down, i) ==
    IF i = 0 THEN p.pos
    ELSE IF KeyOrder[i] \in down
         THEN VAdd(CumPos(p, down, i - 1), KeyMove(p, KeyOrder[i]))
         ELSE CumPos(p, down, i - 1)

\* No active intent's candidate, taken from the position the intents before it
\* left, is blocked.
NoCandidateBlocked(p, down, map) ==
    \A i \in 1 .. Len(KeyOrder) :
        KeyOrder[i] \in down => ~is_colliding(CumPos(p, down, i), COLLISION_RADIUS, map)

\* C9: within one frame the active intents are applied in the order W, S, A, D,
\* each from the position the previous one left.  When no candidate is blocked
\* the frame ends at the start position plus the sum of the active intents'
\* displacements; and with W and S down, W's candidate and its y-only
\* alternative blocked and S's candidate free, the frame ends one backward step
\* from where it started.
C9_IntentsAccumulate ==
    [][pc = "frame" =>
        /\ NoCandidateBlocked(player, keys, WORLD_MAP) =>
              player'.pos = CumPos(player, keys, Len(KeyOrder))
        /\ (/\ keys = {"W", "S"}
            /\ is_colliding(VAdd(player.pos, forward(player)), COLLISION_RADIUS, WORLD_MAP)
            /\ is_colliding(Vec(player.pos.x, player.pos.y + forward(player).y),
                            COLLISION_RADIUS, WORLD_MAP)
            /\ ~is_colliding(VAdd(player.pos, VNeg(forward(player))),
                             COLLISION_RADIUS, WORLD_MAP)) =>
              player'.pos = VAdd(player.pos, VNeg(forward(player)))
      ]_vars

\* C9's case: from the spawn, facing (-1, 0), a frame with W and A down has
\* moved the player by forward + strafe.
C9_Witness ==
    /\ pc = "poll"
    /\ centre.drawn
    /\ keys = {"W", "A"}
    /\ player.dir = Player_new.dir
    /\ player.pos = VAdd(Player_new.pos, VAdd(forward(Player_new), strafe(Player_new)))

====
